---- MODULE Spec2Model ----
(***************************************************************************)
(* Model of the HyperFunnel MCP tools: every tool turns its arguments into *)
(* one outbound HTTP request and turns the outcome of that request into a  *)
(* result dictionary (the "envelope").                                     *)
(*                                                                         *)
(* Python values are tagged records: None is [none |-> TRUE], an int is    *)
(* [int |-> n], a str is [str |-> s], a bool is [bool |-> b], a dict is    *)
(* [dict |-> f] with f a function from key names to Python values.         *)
(* A Python string is a sequence of non-empty tokens, so that the empty    *)
(* string is << >> and string concatenation (f-strings) is \o.             *)
(***************************************************************************)
EXTENDS Integers, Sequences, FiniteSets, TLC

VARIABLES environ, base_url, registered, pc, tool, args, request, client, calls, outcome,
          result

vars ==
  <<environ, base_url, registered, pc, tool, args, request, client, calls, outcome, result>>

\* Number of invocation slots the host may use.
NumInv == 2

Slots == 1..NumInv

-----------------------------------------------------------------------------
(* Python values *)

PyNone == [none |-> TRUE]

PyInt(n) == [int |-> n]

PyStr(s) == [str |-> s]

PyBool(b) == [bool |-> b]

PyFloat(tenths) == [float |-> tenths]

PyDict(f) == [dict |-> f]

EmptyDict == PyDict(<<>>)

IsNone(v) == "none" \in DOMAIN v

IsStr(v) == "str" \in DOMAIN v

IsInt(v) == "int" \in DOMAIN v

IsFloat(v) == "float" \in DOMAIN v

IsDict(v) == "dict" \in DOMAIN v

\* bool(v) as Python evaluates it in `if v:`
Truthy(v) ==
  IF IsNone(v) THEN FALSE
  ELSE IF IsStr(v) THEN v.str # << >>
  ELSE IF IsInt(v) THEN v.int # 0
  ELSE IF IsFloat(v) THEN v.float # 0
  ELSE IF IsDict(v) THEN DOMAIN v.dict # {}
  ELSE v.bool

\* d[k] = v on a dict literal
SetItem(d, k, v) == (k :> v) @@ d

-----------------------------------------------------------------------------
(* Configuration *)

DEFAULT_BASE_URL == <<"http://", "127.0.0.1:8000">>

\* Values of the HYPERFUNNEL_API_BASE_URL environment variable: unset, or a URL.
EnvValues ==
  { PyNone,
    PyStr(<<"http://", "127.0.0.1:8000">>),
    PyStr(<<"http://", "api.hyperfunnel.test:9000">>) }

\* os.getenv("HYPERFUNNEL_API_BASE_URL", "http://127.0.0.1:8000")
get_api_base_url(env) == IF IsNone(env) THEN DEFAULT_BASE_URL ELSE env.str

\* host:port of a URL: the authority that follows the scheme.
HostPort(url) == url[2]

-----------------------------------------------------------------------------
(* Outcomes of the awaited network call *)

StatusCodes == {200, 204, 299, 300, 404, 500}

HeaderSets == { << >>, "content-type" :> <<"application/json">> }

JSON_NOT_FOUND == <<"{\"detail\":\"not found\"}">>

JSON_HOTELS == <<"{\"hotels\":[]}">>

JSON_STRING == <<"\"ok\"">>

NOT_JSON == <<"not json{">>

Bodies == { JSON_NOT_FOUND, JSON_HOTELS, JSON_STRING, NOT_JSON, << >> }

\* Exception classes the await can raise, with their base classes.
Bases(cls) ==
  CASE cls = "ConnectError" ->
         {"ConnectError", "NetworkError", "TransportError", "RequestError",
          "HTTPError", "Exception", "BaseException"}
    [] cls = "ReadTimeout" ->
         {"ReadTimeout", "TimeoutException", "TransportError", "RequestError",
          "HTTPError", "Exception", "BaseException"}
    [] cls = "CancelledError" -> {"CancelledError", "BaseException"}

IsInstance(exc, cls) == cls \in Bases(exc.cls)

Messages == { << >>, <<"All connection attempts failed">> }

Responses ==
  [kind : {"response"}, status_code : StatusCodes, headers : HeaderSets, text : Bodies]

Raises ==
  [kind : {"raise"}, cls : {"ConnectError", "ReadTimeout", "CancelledError"}, msg : Messages]

Outcomes == Responses \cup Raises

\* response.is_success
is_success(response) == 200 <= response.status_code /\ response.status_code <= 299

\* response.json(): the decoded value, or a failure to decode.
json(response) ==
  CASE response.text = JSON_NOT_FOUND ->
         [ok |-> TRUE, value |-> PyDict("detail" :> PyStr(<<"not found">>))]
    [] response.text = JSON_HOTELS ->
         [ok |-> TRUE, value |-> PyDict("hotels" :> [list |-> << >>])]
    [] response.text = JSON_STRING ->
         [ok |-> TRUE, value |-> PyStr(<<"ok">>)]
    [] OTHER -> [ok |-> FALSE]

\* Variant: a body that fails to decode is replaced by None.
ParseContent_drop_text(response) ==
  IF json(response).ok THEN json(response).value ELSE PyNone

\* try: content = response.json()  except: content = response.text
ParseContent(response) ==
  IF json(response).ok THEN json(response).value ELSE PyStr(response.text)

\* a function that ends by `return value`
Return(value) == [returned |-> value]

\* a function that ends by an exception leaving it
Propagate(exc) == [raised |-> exc]

-----------------------------------------------------------------------------
(* Requests and envelopes *)

\* the query string httpx appends for `params`, keys in insertion order
RECURSIVE QueryString(_, _)
QueryString(params, order) ==
  IF order = << >> THEN << >>
  ELSE LET k == Head(order)
           rest == QueryString(params, Tail(order))
       IN IF k \notin DOMAIN params.dict THEN rest
          ELSE <<k, "=">> \o params.dict[k].str
               \o (IF rest = << >> THEN << >> ELSE <<"&">> \o rest)

\* str(response.url): the request URL with the query parameters merged in
ResolvedUrl(url, params, order) ==
  IF ~Truthy(params) THEN url ELSE url \o <<"?">> \o QueryString(params, order)

GetRequest(url, params) ==
  [method |-> "GET", url |-> url, params |-> params, json |-> PyNone]

PostRequest(url, body) ==
  [method |-> "POST", url |-> url, params |-> PyNone, json |-> body]

CONNECT_MSG_127 ==
  <<"Could not connect to ", "127.0.0.1:8000", ". Make sure the API is running.">>

CONNECT_MSG_LOCALHOST ==
  <<"Could not connect to ", "localhost:8000", ". Make sure the API is running.">>

\* Variant: the error is str(e) alone, without the "Unexpected error: " prefix.
UnexpectedMsg_bare(e) == e.msg

\* f"Unexpected error: {str(e)}"
UnexpectedMsg(e) == <<"Unexpected error: ">> \o e.msg

\* Variant: success is computed as status_code == 200.
ResponseEnvelope_success_only_200(response) ==
  ("status_code" :> PyInt(response.status_code))
  @@ ("headers" :> PyDict(response.headers))
  @@ ("content" :> ParseContent(response))
  @@ ("success" :> PyBool(response.status_code = 200))

\* Variant: the headers entry is left out of the dict.
ResponseEnvelope_no_headers(response) ==
  ("status_code" :> PyInt(response.status_code))
  @@ ("content" :> ParseContent(response))
  @@ ("success" :> PyBool(is_success(response)))

\* the dict built from a received response, without the per-tool extras
ResponseEnvelope(response) ==
  ("status_code" :> PyInt(response.status_code))
  @@ ("headers" :> PyDict(response.headers))
  @@ ("content" :> ParseContent(response))
  @@ ("success" :> PyBool(is_success(response)))

\* the dict built in an except clause, without the per-tool extras
ErrorEnvelope(message) ==
  ("error" :> PyStr(message))
  @@ ("status_code" :> PyNone)
  @@ ("success" :> PyBool(FALSE))

-----------------------------------------------------------------------------
(* tools/destinations.py *)

destination_request_url == <<"http://", "localhost:8000", "/destinations">>

destination_request_request(a) == GetRequest(destination_request_url, PyNone)

destination_request(a, out) ==
  IF out.kind = "response" THEN Return(ResponseEnvelope(out))
  ELSE IF IsInstance(out, "ConnectError") THEN Return(ErrorEnvelope(CONNECT_MSG_LOCALHOST))
  ELSE IF IsInstance(out, "Exception") THEN Return(ErrorEnvelope(UnexpectedMsg(out)))
  ELSE Propagate(out)

-----------------------------------------------------------------------------
(* tools/hotels.py *)

get_hotels_url == <<"http://", "127.0.0.1:8000", "/hotels">>

\* Variant: country is tested before city.
get_hotels_params_country_first(a) ==
  IF Truthy(a.country) THEN PyDict("country" :> a.country)
  ELSE IF Truthy(a.city) THEN PyDict("city" :> a.city)
  ELSE EmptyDict

get_hotels_params(a) ==
  IF Truthy(a.city) THEN PyDict("city" :> a.city)
  ELSE IF Truthy(a.country) THEN PyDict("country" :> a.country)
  ELSE EmptyDict

get_hotels_request(a) == GetRequest(get_hotels_url, get_hotels_params(a))

get_hotels(a, out) ==
  IF out.kind = "response"
  THEN Return(ResponseEnvelope(out)
              @@ ("url" :> PyStr(ResolvedUrl(get_hotels_url, get_hotels_params(a),
                                             <<"city", "country">>))))
  ELSE IF IsInstance(out, "ConnectError") THEN Return(ErrorEnvelope(CONNECT_MSG_127))
  ELSE IF IsInstance(out, "Exception") THEN Return(ErrorEnvelope(UnexpectedMsg(out)))
  ELSE Propagate(out)

get_hotel_by_id_url(a) == <<"http://", "127.0.0.1:8000", "/hotels/">> \o a.hotel_id.str

get_hotel_by_id_request(a) == GetRequest(get_hotel_by_id_url(a), PyNone)

\* Variant: `except Exception` is written before `except httpx.ConnectError`.
get_hotel_by_id_catch_all_first(a, out) ==
  LET url == "url" :> PyStr(get_hotel_by_id_url(a))
  IN IF out.kind = "response" THEN Return(ResponseEnvelope(out) @@ url)
     ELSE IF IsInstance(out, "Exception")
          THEN Return(ErrorEnvelope(UnexpectedMsg(out)) @@ url)
     ELSE IF IsInstance(out, "ConnectError")
          THEN Return(ErrorEnvelope(CONNECT_MSG_127) @@ url)
     ELSE Propagate(out)

get_hotel_by_id(a, out) ==
  LET url == "url" :> PyStr(get_hotel_by_id_url(a))
  IN IF out.kind = "response" THEN Return(ResponseEnvelope(out) @@ url)
     ELSE IF IsInstance(out, "ConnectError")
          THEN Return(ErrorEnvelope(CONNECT_MSG_127) @@ url)
     ELSE IF IsInstance(out, "Exception")
          THEN Return(ErrorEnvelope(UnexpectedMsg(out)) @@ url)
     ELSE Propagate(out)

get_hotel_with_rooms_url(a) ==
  <<"http://", "127.0.0.1:8000", "/hotels/">> \o a.hotel_id.str \o <<"/with-rooms">>

get_hotel_with_rooms_request(a) == GetRequest(get_hotel_with_rooms_url(a), PyNone)

get_hotel_with_rooms(a, out) ==
  LET url == "url" :> PyStr(get_hotel_with_rooms_url(a))
  IN IF out.kind = "response" THEN Return(ResponseEnvelope(out) @@ url)
     ELSE IF IsInstance(out, "ConnectError")
          THEN Return(ErrorEnvelope(CONNECT_MSG_127) @@ url)
     ELSE IF IsInstance(out, "Exception")
          THEN Return(ErrorEnvelope(UnexpectedMsg(out)) @@ url)
     ELSE Propagate(out)

-----------------------------------------------------------------------------
(* my_server.py: the stand-alone server with its own copies of two tools *)

my_server_destination_request_request(a) == GetRequest(destination_request_url, PyNone)

my_server_destination_request(a, out) ==
  IF out.kind = "response" THEN Return(ResponseEnvelope(out))
  ELSE IF IsInstance(out, "ConnectError") THEN Return(ErrorEnvelope(CONNECT_MSG_LOCALHOST))
  ELSE IF IsInstance(out, "Exception") THEN Return(ErrorEnvelope(UnexpectedMsg(out)))
  ELSE Propagate(out)

my_server_get_hotels_params(a) ==
  IF Truthy(a.city) THEN PyDict("city" :> a.city)
  ELSE IF Truthy(a.country) THEN PyDict("country" :> a.country)
  ELSE EmptyDict

my_server_get_hotels_request(a) == GetRequest(get_hotels_url, my_server_get_hotels_params(a))

my_server_get_hotels(a, out) ==
  IF out.kind = "response"
  THEN Return(ResponseEnvelope(out)
              @@ ("url" :> PyStr(ResolvedUrl(get_hotels_url, my_server_get_hotels_params(a),
                                             <<"city", "country">>))))
  ELSE IF IsInstance(out, "ConnectError") THEN Return(ErrorEnvelope(CONNECT_MSG_127))
  ELSE IF IsInstance(out, "Exception") THEN Return(ErrorEnvelope(UnexpectedMsg(out)))
  ELSE Propagate(out)


-----------------------------------------------------------------------------
(* tools/rooms.py *)

get_rooms_by_hotel_id_url(self_base_url, a) ==
  self_base_url \o <<"/rooms/by-hotel/">> \o a.hotel_id.str

get_rooms_by_hotel_id_request(self_base_url, a) ==
  GetRequest(get_rooms_by_hotel_id_url(self_base_url, a), PyNone)

get_rooms_by_hotel_id(self_base_url, a, out) ==
  LET url == "url" :> PyStr(get_rooms_by_hotel_id_url(self_base_url, a))
  IN IF out.kind = "response" THEN Return(ResponseEnvelope(out) @@ url)
     ELSE IF IsInstance(out, "ConnectError")
          THEN Return(ErrorEnvelope(CONNECT_MSG_127) @@ url)
     ELSE IF IsInstance(out, "Exception")
          THEN Return(ErrorEnvelope(UnexpectedMsg(out)) @@ url)
     ELSE Propagate(out)

-----------------------------------------------------------------------------
(* tools/bookings.py *)

get_booking_quote_url(self_base_url) == self_base_url \o <<"/bookings/quote">>

\* Variant: the two dates are written under each other's key.
get_booking_quote_body_dates_swapped(a) ==
  PyDict(("room_id" :> a.room_id)
         @@ ("check_in_date" :> a.check_out_date)
         @@ ("check_out_date" :> a.check_in_date)
         @@ ("guests" :> a.guests))

get_booking_quote_body(a) ==
  PyDict(("room_id" :> a.room_id)
         @@ ("check_in_date" :> a.check_in_date)
         @@ ("check_out_date" :> a.check_out_date)
         @@ ("guests" :> a.guests))

get_booking_quote_request(self_base_url, a) ==
  PostRequest(get_booking_quote_url(self_base_url), get_booking_quote_body(a))

get_booking_quote(self_base_url, a, out) ==
  LET extras == ("url" :> PyStr(get_booking_quote_url(self_base_url)))
                @@ ("request_body" :> get_booking_quote_body(a))
  IN IF out.kind = "response" THEN Return(ResponseEnvelope(out) @@ extras)
     ELSE IF IsInstance(out, "ConnectError")
          THEN Return(ErrorEnvelope(CONNECT_MSG_127) @@ extras)
     ELSE IF IsInstance(out, "Exception")
          THEN Return(ErrorEnvelope(UnexpectedMsg(out)) @@ extras)
     ELSE Propagate(out)

create_booking_url(self_base_url) == self_base_url \o <<"/bookings">>

\* Variant: the optional keys are added with `if price:` and `if status:`.
create_booking_body_truthy(a) ==
  LET required == ("hotel_id" :> a.hotel_id)
                  @@ ("room_id" :> a.room_id)
                  @@ ("check_in_date" :> a.check_in_date)
                  @@ ("check_out_date" :> a.check_out_date)
                  @@ ("guests" :> a.guests)
      with_price == IF Truthy(a.price) THEN SetItem(required, "price", a.price)
                    ELSE required
  IN PyDict(IF Truthy(a.status) THEN SetItem(with_price, "status", a.status)
            ELSE with_price)

create_booking_body(a) ==
  LET required == ("hotel_id" :> a.hotel_id)
                  @@ ("room_id" :> a.room_id)
                  @@ ("check_in_date" :> a.check_in_date)
                  @@ ("check_out_date" :> a.check_out_date)
                  @@ ("guests" :> a.guests)
      with_price == IF ~IsNone(a.price) THEN SetItem(required, "price", a.price)
                    ELSE required
  IN PyDict(IF ~IsNone(a.status) THEN SetItem(with_price, "status", a.status)
            ELSE with_price)

create_booking_request(self_base_url, a) ==
  PostRequest(create_booking_url(self_base_url), create_booking_body(a))

\* Variant: the except clauses leave request_body out of the dict.
create_booking_no_echo_on_error(self_base_url, a, out) ==
  LET url == "url" :> PyStr(create_booking_url(self_base_url))
      extras == url @@ ("request_body" :> create_booking_body(a))
  IN IF out.kind = "response" THEN Return(ResponseEnvelope(out) @@ extras)
     ELSE IF IsInstance(out, "ConnectError")
          THEN Return(ErrorEnvelope(CONNECT_MSG_127) @@ url)
     ELSE IF IsInstance(out, "Exception")
          THEN Return(ErrorEnvelope(UnexpectedMsg(out)) @@ url)
     ELSE Propagate(out)

create_booking(self_base_url, a, out) ==
  LET extras == ("url" :> PyStr(create_booking_url(self_base_url)))
                @@ ("request_body" :> create_booking_body(a))
  IN IF out.kind = "response" THEN Return(ResponseEnvelope(out) @@ extras)
     ELSE IF IsInstance(out, "ConnectError")
          THEN Return(ErrorEnvelope(CONNECT_MSG_127) @@ extras)
     ELSE IF IsInstance(out, "Exception")
          THEN Return(ErrorEnvelope(UnexpectedMsg(out)) @@ extras)
     ELSE Propagate(out)

-----------------------------------------------------------------------------
(* tools/availability.py *)

search_availability_url(self_base_url) == self_base_url \o <<"/availability/search">>

\* Variant: the optional keys are part of the dict literal, None included.
search_availability_body_nulls(a) ==
  PyDict(("check_in_date" :> a.check_in_date)
         @@ ("check_out_date" :> a.check_out_date)
         @@ ("guests" :> a.guests)
         @@ ("min_rooms" :> a.min_rooms)
         @@ ("hotel_id" :> a.hotel_id)
         @@ ("room_id" :> a.room_id))

search_availability_body(a) ==
  LET required == ("check_in_date" :> a.check_in_date)
                  @@ ("check_out_date" :> a.check_out_date)
                  @@ ("guests" :> a.guests)
                  @@ ("min_rooms" :> a.min_rooms)
      with_hotel == IF Truthy(a.hotel_id) THEN SetItem(required, "hotel_id", a.hotel_id)
                    ELSE required
  IN PyDict(IF Truthy(a.room_id) THEN SetItem(with_hotel, "room_id", a.room_id)
            ELSE with_hotel)

search_availability_request(self_base_url, a) ==
  PostRequest(search_availability_url(self_base_url), search_availability_body(a))

search_availability(self_base_url, a, out) ==
  LET extras == ("url" :> PyStr(search_availability_url(self_base_url)))
                @@ ("request_body" :> search_availability_body(a))
  IN IF out.kind = "response" THEN Return(ResponseEnvelope(out) @@ extras)
     ELSE IF IsInstance(out, "ConnectError")
          THEN Return(ErrorEnvelope(CONNECT_MSG_127) @@ extras)
     ELSE IF IsInstance(out, "Exception")
          THEN Return(ErrorEnvelope(UnexpectedMsg(out)) @@ extras)
     ELSE Propagate(out)

get_room_calendar_url(self_base_url, a) ==
  self_base_url \o <<"/availability/room/">> \o a.room_id.str \o <<"/calendar">>

get_room_calendar_params(a) ==
  PyDict(("check_in_date" :> a.check_in_date) @@ ("check_out_date" :> a.check_out_date))

get_room_calendar_request(self_base_url, a) ==
  GetRequest(get_room_calendar_url(self_base_url, a), get_room_calendar_params(a))

\* Variant: only httpx.ConnectError is caught.
get_room_calendar_no_catch_all(self_base_url, a, out) ==
  LET url == get_room_calendar_url(self_base_url, a)
  IN IF out.kind = "response"
     THEN Return(ResponseEnvelope(out)
                 @@ ("url" :> PyStr(ResolvedUrl(url, get_room_calendar_params(a),
                                                <<"check_in_date", "check_out_date">>))))
     ELSE IF IsInstance(out, "ConnectError")
          THEN Return(ErrorEnvelope(CONNECT_MSG_127) @@ ("url" :> PyStr(url)))
     ELSE Propagate(out)

get_room_calendar(self_base_url, a, out) ==
  LET url == get_room_calendar_url(self_base_url, a)
  IN IF out.kind = "response"
     THEN Return(ResponseEnvelope(out)
                 @@ ("url" :> PyStr(ResolvedUrl(url, get_room_calendar_params(a),
                                                <<"check_in_date", "check_out_date">>))))
     ELSE IF IsInstance(out, "ConnectError")
          THEN Return(ErrorEnvelope(CONNECT_MSG_127) @@ ("url" :> PyStr(url)))
     ELSE IF IsInstance(out, "Exception")
          THEN Return(ErrorEnvelope(UnexpectedMsg(out)) @@ ("url" :> PyStr(url)))
     ELSE Propagate(out)


-----------------------------------------------------------------------------
(* Inputs *)

NoArgs == << >>

Dates == { <<"2025-01-01">>, <<"2025-01-05">> }

OptionalIds(id) == { PyNone, PyStr(<< >>), PyStr(<<id>>) }

HotelIds == { PyStr(<<"h1">>), PyStr(<<"bad-id">>) }

GetHotelsArgs ==
  [country : {PyNone, PyStr(<< >>), PyStr(<<"spain">>)},
   city : {PyNone, PyStr(<< >>), PyStr(<<"madrid">>)}]

SearchAvailabilityArgs ==
  [check_in_date : {PyStr(d) : d \in Dates}, check_out_date : {PyStr(<<"2025-01-01">>)},
   guests : {PyInt(2)}, min_rooms : {PyInt(1)},
   hotel_id : OptionalIds("h1"), room_id : OptionalIds("r1")]

RoomCalendarArgs ==
  [room_id : {PyStr(<<"r1">>)}, check_in_date : {PyStr(<<"2025-01-01">>)},
   check_out_date : {PyStr(d) : d \in Dates}]

BookingQuoteArgs ==
  [room_id : {PyStr(<<"r1">>)}, check_in_date : {PyStr(d) : d \in Dates},
   check_out_date : {PyStr(<<"2025-01-01">>)}, guests : {PyInt(0), PyInt(2)}]

CreateBookingArgs ==
  [hotel_id : {PyStr(<<"h1">>)}, room_id : {PyStr(<<"r1">>)},
   check_in_date : {PyStr(d) : d \in Dates}, check_out_date : {PyStr(<<"2025-01-05">>)},
   guests : {PyInt(2)},
   price : {PyNone, PyFloat(0), PyFloat(1995)},
   status : {PyNone, PyStr(<< >>), PyStr(<<"PENDING">>)}]

GetTools ==
  {"destination_request", "get_hotels", "get_hotel_by_id", "get_hotel_with_rooms",
   "get_rooms_by_hotel_id", "get_room_calendar",
   "my_server.destination_request", "my_server.get_hotels"}

PostTools == {"search_availability", "get_booking_quote", "create_booking"}

Tools == GetTools \cup PostTools

ArgsOf(t) ==
  CASE t \in {"destination_request", "my_server.destination_request"} -> {NoArgs}
    [] t \in {"get_hotels", "my_server.get_hotels"} -> GetHotelsArgs
    [] t \in {"get_hotel_by_id", "get_hotel_with_rooms", "get_rooms_by_hotel_id"} ->
         [hotel_id : HotelIds]
    [] t = "search_availability" -> SearchAvailabilityArgs
    [] t = "get_room_calendar" -> RoomCalendarArgs
    [] t = "get_booking_quote" -> BookingQuoteArgs
    [] t = "create_booking" -> CreateBookingArgs

-----------------------------------------------------------------------------
(* Dispatch of a tool name to its handler *)

\* the request the handler of tool t passes to client.get / client.post
RequestOf(t, self_base_url, a) ==
  CASE t = "destination_request" -> destination_request_request(a)
    [] t = "get_hotels" -> get_hotels_request(a)
    [] t = "get_hotel_by_id" -> get_hotel_by_id_request(a)
    [] t = "get_hotel_with_rooms" -> get_hotel_with_rooms_request(a)
    [] t = "my_server.destination_request" -> my_server_destination_request_request(a)
    [] t = "my_server.get_hotels" -> my_server_get_hotels_request(a)
    [] t = "get_rooms_by_hotel_id" -> get_rooms_by_hotel_id_request(self_base_url, a)
    [] t = "get_booking_quote" -> get_booking_quote_request(self_base_url, a)
    [] t = "create_booking" -> create_booking_request(self_base_url, a)
    [] t = "search_availability" -> search_availability_request(self_base_url, a)
    [] t = "get_room_calendar" -> get_room_calendar_request(self_base_url, a)

\* how the handler of tool t ends once the awaited call has ended with `out`
Run(t, self_base_url, a, out) ==
  CASE t = "destination_request" -> destination_request(a, out)
    [] t = "get_hotels" -> get_hotels(a, out)
    [] t = "get_hotel_by_id" -> get_hotel_by_id(a, out)
    [] t = "get_hotel_with_rooms" -> get_hotel_with_rooms(a, out)
    [] t = "my_server.destination_request" -> my_server_destination_request(a, out)
    [] t = "my_server.get_hotels" -> my_server_get_hotels(a, out)
    [] t = "get_rooms_by_hotel_id" -> get_rooms_by_hotel_id(self_base_url, a, out)
    [] t = "get_booking_quote" -> get_booking_quote(self_base_url, a, out)
    [] t = "create_booking" -> create_booking(self_base_url, a, out)
    [] t = "search_availability" -> search_availability(self_base_url, a, out)
    [] t = "get_room_calendar" -> get_room_calendar(self_base_url, a, out)

-----------------------------------------------------------------------------
(* Registration *)

Groups ==
  {"register_destination_tools", "register_hotel_tools", "RoomTools", "BookingTools",
   "AvailabilityTools", "my_server"}

\* Variant: AvailabilityTools registers search_availability on both lines.
register_tools_duplicate(g) ==
  CASE g = "register_destination_tools" -> <<"destination_request">>
    [] g = "register_hotel_tools" ->
         <<"get_hotels", "get_hotel_by_id", "get_hotel_with_rooms">>
    [] g = "RoomTools" -> <<"get_rooms_by_hotel_id">>
    [] g = "BookingTools" -> <<"get_booking_quote", "create_booking">>
    [] g = "AvailabilityTools" -> <<"search_availability", "search_availability">>
    [] g = "my_server" -> <<"my_server.destination_request", "my_server.get_hotels">>

\* the handlers a tool group passes to mcp.tool(), in the order of the calls
register_tools(g) ==
  CASE g = "register_destination_tools" -> <<"destination_request">>
    [] g = "register_hotel_tools" ->
         <<"get_hotels", "get_hotel_by_id", "get_hotel_with_rooms">>
    [] g = "RoomTools" -> <<"get_rooms_by_hotel_id">>
    [] g = "BookingTools" -> <<"get_booking_quote", "create_booking">>
    [] g = "AvailabilityTools" -> <<"search_availability", "get_room_calendar">>
    [] g = "my_server" -> <<"my_server.destination_request", "my_server.get_hotels">>

\* the tool groups that read the base URL in their __init__
ClassGroups == {"RoomTools", "BookingTools", "AvailabilityTools"}

Count(seq, t) == Cardinality({k \in 1..Len(seq) : seq[k] = t})

IsConstructed(g) == registered[Head(register_tools(g))] > 0

-----------------------------------------------------------------------------
(* State machine *)

\* no invocation is in progress
Idle ==
  /\ pc = [i \in Slots |-> "idle"]
  /\ tool = [i \in Slots |-> "none"]
  /\ args = [i \in Slots |-> NoArgs]
  /\ request = [i \in Slots |-> PyNone]
  /\ client = [i \in Slots |-> "none"]
  /\ calls = [i \in Slots |-> 0]
  /\ outcome = [i \in Slots |-> PyNone]
  /\ result = [i \in Slots |-> PyNone]

\* The state of the server once every tool group has been constructed.
Init ==
  /\ environ \in EnvValues
  /\ base_url = get_api_base_url(environ)
  /\ registered = [t \in Tools |-> 1]
  /\ Idle

\* The host calls tool t with arguments a: the handler builds its request,
\* enters `async with httpx.AsyncClient()` and suspends in client.get/post.
Invoke(i, t, a) ==
  /\ pc[i] = "idle"
  /\ registered[t] > 0
  /\ pc' = [pc EXCEPT ![i] = "awaiting"]
  /\ tool' = [tool EXCEPT ![i] = t]
  /\ args' = [args EXCEPT ![i] = a]
  /\ request' = [request EXCEPT ![i] = RequestOf(t, base_url, a)]
  /\ client' = [client EXCEPT ![i] = "open"]
  /\ calls' = [calls EXCEPT ![i] = 1]
  /\ outcome' = [outcome EXCEPT ![i] = PyNone]
  /\ result' = [result EXCEPT ![i] = PyNone]
  /\ UNCHANGED <<environ, base_url, registered>>

\* The host runs one invocation at a time.
SeqInvoke(i) ==
  /\ \A j \in Slots \ {i} : pc[j] = "idle"
  /\ \E t \in Tools : \E a \in ArgsOf(t) : Invoke(i, t, a)

\* Variant: after a connection failure the handler sends the request once more.
Resume_retry_on_connect_error(i, out) ==
  /\ pc[i] = "awaiting"
  /\ IF out.kind = "raise" /\ IsInstance(out, "ConnectError") /\ calls[i] < 2
     THEN /\ calls' = [calls EXCEPT ![i] = calls[i] + 1]
          /\ UNCHANGED <<environ, base_url, registered, pc, tool, args, request, client,
                         outcome, result>>
     ELSE /\ LET r == Run(tool[i], base_url, args[i], out)
             IN /\ result' = [result EXCEPT ![i] = r]
                /\ pc' = [pc EXCEPT ![i] =
                            IF "returned" \in DOMAIN r THEN "returned" ELSE "raised"]
          /\ outcome' = [outcome EXCEPT ![i] = out]
          /\ client' = [client EXCEPT ![i] = "closed"]
          /\ UNCHANGED <<environ, base_url, registered, tool, args, request, calls>>

\* Variant: the client is closed by an explicit call on the response path only.
Resume_close_on_response_only(i, out) ==
  /\ pc[i] = "awaiting"
  /\ LET r == Run(tool[i], base_url, args[i], out)
     IN /\ result' = [result EXCEPT ![i] = r]
        /\ pc' = [pc EXCEPT ![i] = IF "returned" \in DOMAIN r THEN "returned" ELSE "raised"]
  /\ outcome' = [outcome EXCEPT ![i] = out]
  /\ client' = [client EXCEPT ![i] = IF out.kind = "response" THEN "closed" ELSE "open"]
  /\ UNCHANGED <<environ, base_url, registered, tool, args, request, calls>>

\* Variant: the arguments are kept in an attribute of the tool group, which a
\* later invocation of the same tool overwrites while this one is suspended.
Resume_shared_args(i, out) ==
  /\ pc[i] = "awaiting"
  /\ LET others == {j \in Slots \ {i} : pc[j] = "awaiting" /\ tool[j] = tool[i]}
         a == IF others = {} THEN args[i] ELSE args[CHOOSE j \in others : TRUE]
         r == Run(tool[i], base_url, a, out)
     IN /\ result' = [result EXCEPT ![i] = r]
        /\ pc' = [pc EXCEPT ![i] = IF "returned" \in DOMAIN r THEN "returned" ELSE "raised"]
  /\ outcome' = [outcome EXCEPT ![i] = out]
  /\ client' = [client EXCEPT ![i] = "closed"]
  /\ UNCHANGED <<environ, base_url, registered, tool, args, request, calls>>

\* The awaited call ends with `out`; the handler runs to its end, leaving the
\* `async with` block (which closes the client) by return or by exception.
Resume(i, out) ==
  /\ pc[i] = "awaiting"
  /\ LET r == Run(tool[i], base_url, args[i], out)
     IN /\ result' = [result EXCEPT ![i] = r]
        /\ pc' = [pc EXCEPT ![i] = IF "returned" \in DOMAIN r THEN "returned" ELSE "raised"]
  /\ outcome' = [outcome EXCEPT ![i] = out]
  /\ client' = [client EXCEPT ![i] = "closed"]
  /\ UNCHANGED <<environ, base_url, registered, tool, args, request, calls>>

\* The host takes the result of a finished invocation; the slot is free again.
Collect(i) ==
  /\ pc[i] \in {"returned", "raised"}
  /\ pc' = [pc EXCEPT ![i] = "idle"]
  /\ tool' = [tool EXCEPT ![i] = "none"]
  /\ args' = [args EXCEPT ![i] = NoArgs]
  /\ request' = [request EXCEPT ![i] = PyNone]
  /\ client' = [client EXCEPT ![i] = "none"]
  /\ calls' = [calls EXCEPT ![i] = 0]
  /\ outcome' = [outcome EXCEPT ![i] = PyNone]
  /\ result' = [result EXCEPT ![i] = PyNone]
  /\ UNCHANGED <<environ, base_url, registered>>

\* Tool group g is constructed: a class-based group reads the base URL, and
\* every group registers its handlers, one mcp.tool() call per handler.
Construct(g) ==
  /\ base_url' = IF g \in ClassGroups THEN get_api_base_url(environ) ELSE base_url
  /\ registered' = [t \in Tools |-> registered[t] + Count(register_tools(g), t)]
  /\ UNCHANGED <<environ, pc, tool, args, request, client, calls, outcome, result>>

Next ==
  \E i \in Slots :
    \/ SeqInvoke(i)
    \/ \E out \in Outcomes : Resume(i, out)
    \/ Collect(i)

Spec == Init /\ [][Next]_vars

-----------------------------------------------------------------------------
(* Concurrent invocations: the host starts an invocation whenever a slot is
   free, so that invocations overlap at their awaits. *)

ConcInputs ==
  { <<"search_availability",
      [check_in_date |-> PyStr(<<"2025-01-01">>), check_out_date |-> PyStr(<<"2025-01-05">>),
       guests |-> PyInt(2), min_rooms |-> PyInt(1),
       hotel_id |-> PyStr(<<"h1">>), room_id |-> PyNone]>>,
    <<"search_availability",
      [check_in_date |-> PyStr(<<"2025-01-05">>), check_out_date |-> PyStr(<<"2025-01-01">>),
       guests |-> PyInt(2), min_rooms |-> PyInt(1),
       hotel_id |-> PyNone, room_id |-> PyStr(<<"r1">>)]>>,
    <<"get_booking_quote",
      [room_id |-> PyStr(<<"r1">>), check_in_date |-> PyStr(<<"2025-01-01">>),
       check_out_date |-> PyStr(<<"2025-01-05">>), guests |-> PyInt(2)]>>,
    <<"get_hotels", [country |-> PyStr(<<"spain">>), city |-> PyStr(<<"madrid">>)]>>,
    <<"get_hotels", [country |-> PyStr(<<"spain">>), city |-> PyNone]>>,
    <<"get_rooms_by_hotel_id", [hotel_id |-> PyStr(<<"h1">>)]>> }

ConcOutcomes ==
  { [kind |-> "response", status_code |-> 200, headers |-> << >>, text |-> JSON_HOTELS],
    [kind |-> "response", status_code |-> 404, headers |-> << >>, text |-> JSON_NOT_FOUND],
    [kind |-> "response", status_code |-> 500, headers |-> << >>, text |-> NOT_JSON],
    [kind |-> "raise", cls |-> "ConnectError", msg |-> <<"All connection attempts failed">>],
    [kind |-> "raise", cls |-> "CancelledError", msg |-> << >>] }

ConcInvoke(i) == \E x \in ConcInputs : Invoke(i, x[1], x[2])

ConcResume(i) == \E out \in ConcOutcomes : Resume(i, out)

ConcNext ==
  \E i \in Slots :
    \/ ConcInvoke(i)
    \/ ConcResume(i)
    \/ Collect(i)

ConcSpec == Init /\ [][ConcNext]_vars

-----------------------------------------------------------------------------
(* Startup: the server process constructs each tool group once, then serves. *)

NotConfigured == << >>

StartupInit ==
  /\ environ \in EnvValues
  /\ base_url = NotConfigured
  /\ registered = [t \in Tools |-> 0]
  /\ Idle

Startup(g) == ~IsConstructed(g) /\ Construct(g)

StartupInvoke(i) ==
  /\ \A j \in Slots \ {i} : pc[j] = "idle"
  /\ \E t \in Tools : Invoke(i, t, CHOOSE a \in ArgsOf(t) : TRUE)

StartupNext ==
  \/ \E g \in Groups : Startup(g)
  \/ \E i \in Slots :
       \/ StartupInvoke(i)
       \/ ConcResume(i)
       \/ Collect(i)

StartupSpec == StartupInit /\ [][StartupNext]_vars

-----------------------------------------------------------------------------
(* Vocabulary of the properties *)

Returned(i) == pc[i] = "returned"

Raised(i) == pc[i] = "raised"

\* the envelope a finished invocation returned
Env(i) == result[i].returned

HasKey(e, k) == k \in DOMAIN e

GotResponse(i) == outcome[i].kind = "response"

GotRaise(i) == outcome[i].kind = "raise"

TypeOK ==
  /\ pc \in [Slots -> {"idle", "awaiting", "returned", "raised"}]
  /\ tool \in [Slots -> Tools \cup {"none"}]
  /\ \A i \in Slots : pc[i] = "idle" <=> tool[i] = "none"


Finished(i) == pc[i] \in {"returned", "raised"}

StatusPresent(e) == HasKey(e, "status_code") /\ IsInt(e.status_code)

StatusAbsent(e) == HasKey(e, "status_code") => IsNone(e.status_code)

ConnectFailed(i) == GotRaise(i) /\ IsInstance(outcome[i], "ConnectError")

OtherException(i) ==
  /\ GotRaise(i)
  /\ ~IsInstance(outcome[i], "ConnectError")
  /\ IsInstance(outcome[i], "Exception")

-----------------------------------------------------------------------------
(* C1 *)

\* C1: every returned envelope has success equal to "status_code is present
\* and 200 <= status_code < 300", whatever the tool and the outcome.
C1_SuccessIffStatus2xx ==
  \A i \in Slots :
    Returned(i) =>
      LET e == Env(i)
      IN /\ HasKey(e, "success")
         /\ e.success = PyBool(/\ StatusPresent(e)
                               /\ 200 <= e.status_code.int
                               /\ e.status_code.int < 300)

\* C1 witness: a 204 response was turned into an envelope with success true.
C1_Witness ==
  \E i \in Slots :
    /\ Returned(i)
    /\ GotResponse(i)
    /\ outcome[i].status_code = 204
    /\ Env(i).status_code = PyInt(204)
    /\ Env(i).success = PyBool(TRUE)

-----------------------------------------------------------------------------
(* C2 *)

ContentShape(e) ==
  /\ HasKey(e, "content")
  /\ StatusPresent(e)
  /\ ~HasKey(e, "error")

ErrorShape(e) ==
  /\ HasKey(e, "error")
  /\ IsStr(e.error)
  /\ e.error.str # << >>
  /\ e.success = PyBool(FALSE)
  /\ StatusAbsent(e)
  /\ ~HasKey(e, "content")

\* C2: every returned envelope has exactly one of the two shapes: content and
\* status_code without error, or a non-empty error with success false, no
\* status code and no content.
C2_ExactlyOneShape ==
  \A i \in Slots :
    Returned(i) =>
      /\ ContentShape(Env(i)) \/ ErrorShape(Env(i))
      /\ ~(ContentShape(Env(i)) /\ ErrorShape(Env(i)))

\* C2 witness: an exception with an empty message was turned into an envelope
\* of the error shape.
C2_Witness ==
  \E i \in Slots :
    /\ Returned(i)
    /\ OtherException(i)
    /\ outcome[i].msg = << >>
    /\ ErrorShape(Env(i))

-----------------------------------------------------------------------------
(* C3 *)

\* C3 (as claimed): no invocation ever ends by propagating an exception,
\* whatever the outcome of the awaited call, a cancellation included.
C3_NeverPropagates == \A i \in Slots : ~Raised(i)

\* C3 (amended): an invocation returns an envelope exactly when the awaited
\* call ends with a response or with an exception derived from Exception
\* (connection failure, timeout, ...); it propagates exactly when the awaited
\* call ends with an exception outside Exception, such as the cancellation of
\* the awaiting task.
C3_ReturnsUnlessBaseException ==
  \A i \in Slots :
    Finished(i) =>
      /\ Returned(i) <=> (GotResponse(i) \/ IsInstance(outcome[i], "Exception"))
      /\ Raised(i) => result[i].raised = outcome[i]

\* C3 witness: a timeout of the outbound call ended in a returned envelope.
C3_Witness ==
  \E i \in Slots :
    /\ Returned(i)
    /\ GotRaise(i)
    /\ outcome[i].cls = "ReadTimeout"
    /\ HasKey(Env(i), "error")

-----------------------------------------------------------------------------
(* C4 *)

ConnectMessageFor(url) ==
  <<"Could not connect to ", HostPort(url), ". Make sure the API is running.">>

\* C4: after a connection failure the envelope's error names the host and
\* port of the URL the call was addressed to, with status_code absent and
\* success false.
C4_ConnectErrorNamesBackend ==
  \A i \in Slots :
    (Finished(i) /\ ConnectFailed(i)) =>
      /\ Returned(i)
      /\ HasKey(Env(i), "error")
      /\ Env(i).error = PyStr(ConnectMessageFor(request[i].url))
      /\ StatusAbsent(Env(i))
      /\ Env(i).success = PyBool(FALSE)

-----------------------------------------------------------------------------
(* C5 *)

-----------------------------------------------------------------------------
(* C6 *)

NonJsonBodies == { NOT_JSON, << >> }

\* C6: a response whose body is not JSON comes back as a normal envelope with
\* the raw text as content, status_code and success taken from the response,
\* and no error.
C6_NonJsonBodyKeptVerbatim ==
  \A i \in Slots :
    (Finished(i) /\ GotResponse(i) /\ outcome[i].text \in NonJsonBodies) =>
      /\ Returned(i)
      /\ HasKey(Env(i), "content")
      /\ Env(i).content = PyStr(outcome[i].text)
      /\ Env(i).status_code = PyInt(outcome[i].status_code)
      /\ Env(i).success = PyBool(outcome[i].status_code \in 200..299)
      /\ ~HasKey(Env(i), "error")

\* C6 witness: the body "not json{" of a 200 response is the envelope's content.
C6_Witness ==
  \E i \in Slots :
    /\ Returned(i)
    /\ GotResponse(i)
    /\ outcome[i].text = NOT_JSON
    /\ outcome[i].status_code = 200
    /\ Env(i).content = PyStr(NOT_JSON)


-----------------------------------------------------------------------------
(* C7 *)

IsGetHotels(i) == tool[i] \in {"get_hotels", "my_server.get_hotels"}

Provided(v) == ~IsNone(v)

QueryKeys(i) == DOMAIN request[i].params.dict

\* C7 (as claimed): whenever city is provided, the empty string included, the
\* query of get_hotels contains city and not country; country is sent only
\* when city is not provided.
C7_CityProvidedWins ==
  \A i \in Slots :
    IsGetHotels(i) =>
      /\ Provided(args[i].city) =>
           ("city" \in QueryKeys(i) /\ "country" \notin QueryKeys(i))
      /\ "country" \in QueryKeys(i) => ~Provided(args[i].city)

\* C7 (amended): whenever city is provided and is not the empty string, the
\* query of get_hotels is exactly city; country is sent only when city is not
\* provided or is the empty string, and then only a non-empty country.
C7_NonEmptyCityWins ==
  \A i \in Slots :
    IsGetHotels(i) =>
      /\ (Provided(args[i].city) /\ args[i].city # PyStr(<< >>)) =>
           request[i].params = PyDict("city" :> args[i].city)
      /\ "country" \in QueryKeys(i) =>
           /\ ~Provided(args[i].city) \/ args[i].city = PyStr(<< >>)
           /\ Provided(args[i].country) /\ args[i].country # PyStr(<< >>)
           /\ request[i].params = PyDict("country" :> args[i].country)

\* C7 witness: get_hotels(country="spain", city="madrid") sent city=madrid only.
C7_Witness ==
  \E i \in Slots :
    /\ tool[i] = "get_hotels"
    /\ args[i].country = PyStr(<<"spain">>)
    /\ args[i].city = PyStr(<<"madrid">>)
    /\ request[i].params = PyDict("city" :> PyStr(<<"madrid">>))

-----------------------------------------------------------------------------
(* C8 *)

RequestBody(i) == request[i].json.dict

CreateBookingRequired == {"hotel_id", "room_id", "check_in_date", "check_out_date", "guests"}

\* C8: the body of create_booking has the key price exactly when price was
\* provided and the key status exactly when status was provided, each with the
\* value given (price 0 and status "" included), and always has the five
\* required keys.
C8_CreateBookingBody ==
  \A i \in Slots :
    tool[i] = "create_booking" =>
      LET b == RequestBody(i)
      IN /\ "price" \in DOMAIN b <=> Provided(args[i].price)
         /\ "status" \in DOMAIN b <=> Provided(args[i].status)
         /\ "price" \in DOMAIN b => b["price"] = args[i].price
         /\ "status" \in DOMAIN b => b["status"] = args[i].status
         /\ CreateBookingRequired \subseteq DOMAIN b
         /\ DOMAIN b \subseteq CreateBookingRequired \cup {"price", "status"}
         /\ \A k \in CreateBookingRequired : b[k] = args[i][k]

\* C8 witness: create_booking(price=0, status="") sent both keys unchanged.
C8_Witness ==
  \E i \in Slots :
    /\ tool[i] = "create_booking"
    /\ args[i].price = PyFloat(0)
    /\ args[i].status = PyStr(<< >>)
    /\ RequestBody(i)["price"] = PyFloat(0)
    /\ RequestBody(i)["status"] = PyStr(<< >>)

-----------------------------------------------------------------------------
(* C9 *)

SearchRequired == {"check_in_date", "check_out_date", "guests", "min_rooms"}

NonEmpty(v) == Provided(v) /\ v # PyStr(<< >>)

\* C9 (as claimed): the body of search_availability has the key hotel_id
\* exactly when hotel_id was provided and the key room_id exactly when room_id
\* was provided; with neither it has exactly the four required keys; no
\* optional parameter is sent as null.
C9_OptionalIffProvided ==
  \A i \in Slots :
    tool[i] = "search_availability" =>
      LET b == RequestBody(i)
      IN /\ "hotel_id" \in DOMAIN b <=> Provided(args[i].hotel_id)
         /\ "room_id" \in DOMAIN b <=> Provided(args[i].room_id)
         /\ (~Provided(args[i].hotel_id) /\ ~Provided(args[i].room_id)) =>
              DOMAIN b = SearchRequired
         /\ \A k \in DOMAIN b : ~IsNone(b[k])

\* C9 (amended): the body of search_availability has the key hotel_id exactly
\* when hotel_id was provided and is not the empty string, and the key room_id
\* exactly when room_id was provided and is not the empty string, each with
\* the value given; with neither it has exactly the four required keys; no
\* optional parameter is sent as null.
C9_OptionalIffNonEmpty ==
  \A i \in Slots :
    tool[i] = "search_availability" =>
      LET b == RequestBody(i)
      IN /\ "hotel_id" \in DOMAIN b <=> NonEmpty(args[i].hotel_id)
         /\ "room_id" \in DOMAIN b <=> NonEmpty(args[i].room_id)
         /\ "hotel_id" \in DOMAIN b => b["hotel_id"] = args[i].hotel_id
         /\ "room_id" \in DOMAIN b => b["room_id"] = args[i].room_id
         /\ (~Provided(args[i].hotel_id) /\ ~Provided(args[i].room_id)) =>
              DOMAIN b = SearchRequired
         /\ SearchRequired \subseteq DOMAIN b
         /\ DOMAIN b \subseteq SearchRequired \cup {"hotel_id", "room_id"}
         /\ \A k \in DOMAIN b : ~IsNone(b[k])

\* C9 witness: search_availability with room_id="r1" and no hotel_id sent
\* room_id and no hotel_id key.
C9_Witness ==
  \E i \in Slots :
    /\ tool[i] = "search_availability"
    /\ args[i].hotel_id = PyNone
    /\ args[i].room_id = PyStr(<<"r1">>)
    /\ DOMAIN RequestBody(i) = SearchRequired \cup {"room_id"}
    /\ RequestBody(i)["room_id"] = PyStr(<<"r1">>)

-----------------------------------------------------------------------------
(* C10 *)

\* C10 (as claimed): every returned envelope has a headers mapping: the
\* response headers after a response, the empty mapping after a transport
\* failure.
C10_HeadersAlwaysPresent ==
  \A i \in Slots :
    Returned(i) =>
      /\ HasKey(Env(i), "headers")
      /\ GotResponse(i) => Env(i).headers = PyDict(outcome[i].headers)
      /\ GotRaise(i) => Env(i).headers = EmptyDict

\* C10 (amended): an envelope built from a response has a headers mapping
\* equal to the response headers; an envelope built after a transport failure
\* has no headers key.
C10_HeadersOnlyFromResponse ==
  \A i \in Slots :
    Returned(i) =>
      /\ GotResponse(i) =>
           (HasKey(Env(i), "headers") /\ Env(i).headers = PyDict(outcome[i].headers))
      /\ GotRaise(i) => ~HasKey(Env(i), "headers")

\* C10 witness: the content-type header of a response is in the envelope.
C10_Witness ==
  \E i \in Slots :
    /\ Returned(i)
    /\ GotResponse(i)
    /\ DOMAIN outcome[i].headers = {"content-type"}
    /\ Env(i).headers = PyDict("content-type" :> <<"application/json">>)


-----------------------------------------------------------------------------
(* C11 *)

\* the endpoint path of each tool, relative to the backend base URL
EndpointPath(t, a) ==
  CASE t \in {"destination_request", "my_server.destination_request"} -> <<"/destinations">>
    [] t \in {"get_hotels", "my_server.get_hotels"} -> <<"/hotels">>
    [] t = "get_hotel_by_id" -> <<"/hotels/">> \o a.hotel_id.str
    [] t = "get_hotel_with_rooms" -> <<"/hotels/">> \o a.hotel_id.str \o <<"/with-rooms">>
    [] t = "get_rooms_by_hotel_id" -> <<"/rooms/by-hotel/">> \o a.hotel_id.str
    [] t = "search_availability" -> <<"/availability/search">>
    [] t = "get_room_calendar" ->
         <<"/availability/room/">> \o a.room_id.str \o <<"/calendar">>
    [] t = "get_booking_quote" -> <<"/bookings/quote">>
    [] t = "create_booking" -> <<"/bookings">>

\* C11: for every configured value of HYPERFUNNEL_API_BASE_URL, the URL each
\* tool requests is the configured base URL followed by the tool's endpoint
\* path.
C11_UrlFromConfiguredBase ==
  \A i \in Slots :
    pc[i] # "idle" =>
      request[i].url = get_api_base_url(environ) \o EndpointPath(tool[i], args[i])

-----------------------------------------------------------------------------
(* C12 *)

QueryTools == {"get_hotels", "my_server.get_hotels", "get_room_calendar"}

QueryOrder(t) ==
  IF t = "get_room_calendar" THEN <<"check_in_date", "check_out_date">>
  ELSE <<"city", "country">>

\* the URL of the request of slot i with the query parameters that were sent
SentUrl(i) == ResolvedUrl(request[i].url, request[i].params, QueryOrder(tool[i]))

\* C12: whenever the envelope of get_hotels or get_room_calendar has a url
\* field, on a success or a failure path, that field is the request URL
\* including the query parameters that were sent.
C12_UrlIncludesQuery ==
  \A i \in Slots :
    (Returned(i) /\ tool[i] \in QueryTools /\ HasKey(Env(i), "url")) =>
      Env(i).url = PyStr(SentUrl(i))

-----------------------------------------------------------------------------
(* C13 *)

IsPost(i) == tool[i] \in PostTools

\* the optional parameters of slot i that its handler puts in the body
SentOptionals(i) ==
  CASE tool[i] = "create_booking" ->
         {k \in {"price", "status"} : Provided(args[i][k])}
    [] tool[i] = "search_availability" ->
         {k \in {"hotel_id", "room_id"} : NonEmpty(args[i][k])}
    [] OTHER -> {}

RequiredParams(i) ==
  CASE tool[i] = "create_booking" -> CreateBookingRequired
    [] tool[i] = "search_availability" -> SearchRequired
    [] OTHER -> {"room_id", "check_in_date", "check_out_date", "guests"}

\* C13 (as claimed): the body of a body-bearing tool has only input parameter
\* names as keys and carries every input the caller provided, unchanged; no
\* input is dropped or altered, and the request is issued whatever the dates.
C13_BodyMirrorsInputs ==
  \A i \in Slots :
    IsPost(i) =>
      /\ calls[i] = 1
      /\ DOMAIN RequestBody(i) \subseteq DOMAIN args[i]
      /\ \A k \in DOMAIN args[i] :
           Provided(args[i][k]) =>
             (k \in DOMAIN RequestBody(i) /\ RequestBody(i)[k] = args[i][k])

\* C13 (amended): the body of a body-bearing tool is flat, its keys are the
\* names of the required parameters plus the optional parameters the handler
\* sends (price and status of create_booking when not None, hotel_id and
\* room_id of search_availability when not None and not the empty string), and
\* every value is the input unchanged; an empty-string hotel_id or room_id of
\* search_availability is left out; no call is rejected, and a call with
\* check_out_date not later than check_in_date is issued with both dates as
\* given.
C13_BodyMirrorsSentInputs ==
  \A i \in Slots :
    IsPost(i) =>
      /\ calls[i] = 1
      /\ request[i].method = "POST"
      /\ DOMAIN RequestBody(i) = RequiredParams(i) \cup SentOptionals(i)
      /\ \A k \in DOMAIN RequestBody(i) : RequestBody(i)[k] = args[i][k]

\* C13 witness: get_booking_quote with check_out_date before check_in_date
\* issued its request with both dates as given.
C13_Witness ==
  \E i \in Slots :
    /\ tool[i] = "get_booking_quote"
    /\ pc[i] = "awaiting"
    /\ args[i].check_in_date = PyStr(<<"2025-01-05">>)
    /\ args[i].check_out_date = PyStr(<<"2025-01-01">>)
    /\ RequestBody(i)["check_in_date"] = PyStr(<<"2025-01-05">>)
    /\ RequestBody(i)["check_out_date"] = PyStr(<<"2025-01-01">>)
    /\ calls[i] = 1

-----------------------------------------------------------------------------
(* C18 *)

\* C18: every envelope a POST tool returns, after a response of any status,
\* a connection failure or another exception, has request_body equal to the
\* body passed to client.post; no envelope of a GET tool has request_body.
C18_RequestBodyEcho ==
  \A i \in Slots :
    Returned(i) =>
      /\ tool[i] \in PostTools =>
           /\ HasKey(Env(i), "request_body")
           /\ Env(i).request_body = request[i].json
           /\ IsDict(request[i].json)
      /\ tool[i] \in GetTools => ~HasKey(Env(i), "request_body")

\* C18 witness: create_booking returned its body after a connection failure.
C18_Witness ==
  \E i \in Slots :
    /\ Returned(i)
    /\ tool[i] = "create_booking"
    /\ ConnectFailed(i)
    /\ args[i].price = PyFloat(1995)
    /\ Env(i).request_body = request[i].json
    /\ Env(i).request_body.dict["price"] = PyFloat(1995)


-----------------------------------------------------------------------------
(* C14 *)

\* C14: an invocation has issued exactly one outbound call from the moment it
\* suspends until its result is taken, whatever the outcome: no failure is
\* followed by a second call and no invocation ends without a call.
C14_ExactlyOneCall ==
  \A i \in Slots :
    /\ pc[i] = "idle" => calls[i] = 0
    /\ pc[i] # "idle" => calls[i] = 1

\* C14 witness: an invocation returned after a connection failure with one call.
C14_Witness ==
  \E i \in Slots :
    /\ Returned(i)
    /\ ConnectFailed(i)
    /\ calls[i] = 1

-----------------------------------------------------------------------------
(* C15 *)

\* C15: an invocation has its own client open while it awaits, and that
\* client is closed when the invocation has ended, on every exit path; when no
\* invocation is awaiting, no client is open.
C15_ClientClosedOnExit ==
  \A i \in Slots :
    /\ pc[i] = "awaiting" => client[i] = "open"
    /\ Finished(i) => client[i] = "closed"
    /\ pc[i] = "idle" => client[i] = "none"

\* C15 witness: the client is closed after an invocation that ended in the
\* `except Exception` clause.
C15_Witness ==
  \E i \in Slots :
    /\ Returned(i)
    /\ OtherException(i)
    /\ client[i] = "closed"


-----------------------------------------------------------------------------
(* C16 *)

\* C16: under any interleaving of invocations at their awaits, the request of
\* every invocation is the one built from its own arguments, and the result of
\* every finished invocation is the one its handler gives for its own
\* arguments and its own outcome, as if it had run alone.
C16_NoInterference ==
  \A i \in Slots :
    /\ pc[i] # "idle" => request[i] = RequestOf(tool[i], base_url, args[i])
    /\ Finished(i) => result[i] = Run(tool[i], base_url, args[i], outcome[i])
    /\ (Returned(i) /\ GotResponse(i)) =>
         Env(i).status_code = PyInt(outcome[i].status_code)
    /\ (Returned(i) /\ IsPost(i)) =>
         \A k \in DOMAIN Env(i).request_body.dict :
           Env(i).request_body.dict[k] = args[i][k]

\* C16 witness: two invocations of search_availability with different
\* arguments and different outcomes have both ended, each with the envelope
\* of its own arguments and outcome.
C16_Witness ==
  \E i, j \in Slots :
    /\ i # j
    /\ Returned(i) /\ Returned(j)
    /\ tool[i] = "search_availability" /\ tool[j] = "search_availability"
    /\ args[i] # args[j]
    /\ GotResponse(i) /\ outcome[i].status_code = 200
    /\ ConnectFailed(j)
    /\ Env(i).request_body = request[i].json
    /\ Env(j).request_body = request[j].json
    /\ Env(i).request_body # Env(j).request_body
    /\ Env(i).status_code = PyInt(200)
    /\ HasKey(Env(j), "error")


-----------------------------------------------------------------------------
(* C17 *)

GroupTools(g) ==
  CASE g = "register_destination_tools" -> {"destination_request"}
    [] g = "register_hotel_tools" -> {"get_hotels", "get_hotel_by_id", "get_hotel_with_rooms"}
    [] g = "RoomTools" -> {"get_rooms_by_hotel_id"}
    [] g = "BookingTools" -> {"get_booking_quote", "create_booking"}
    [] g = "AvailabilityTools" -> {"search_availability", "get_room_calendar"}
    [] g = "my_server" -> {"my_server.destination_request", "my_server.get_hotels"}

\* the step registers the tools of group g, each once, and nothing else
RegistersGroup(g) ==
  /\ \A t \in GroupTools(g) : registered[t] = 0 /\ registered'[t] = 1
  /\ \A t \in Tools \ GroupTools(g) : registered'[t] = registered[t]

\* C17: registration is one-way: a step that changes the registrations is the
\* construction of one tool group, which registers each of its tools exactly
\* once under its own name and touches no invocation; a registered tool stays
\* registered, no tool is ever registered twice, and no step of a tool
\* invocation changes the registrations.
C17_RegistrationOneWay ==
  [][ /\ \A t \in Tools : registered'[t] >= registered[t] /\ registered'[t] <= 1
      /\ registered' # registered =>
           ((\E g \in Groups : RegistersGroup(g)) /\ pc' = pc /\ result' = result)
      /\ pc' # pc => registered' = registered ]_vars

\* C17 witness: every tool is registered exactly once and an invocation of a
\* registered tool has returned.
C17_Witness ==
  /\ \A t \in Tools : registered[t] = 1
  /\ \E i \in Slots : Returned(i) /\ registered[tool[i]] = 1


====
